---- MODULE Spec2Model ----
(***************************************************************************)
(* borrow-complex-key-example (src/src/lib.rs): an owned key type          *)
(* (OwnedKey), a borrowed key type (BorrowedKey), the trait object         *)
(* `dyn Key` through which both are compared and hashed, and the three     *)
(* programs that use them: complex2 (a HashSet<OwnedKey> probed with a     *)
(* BorrowedKey), the proptest consistent_borrow, and the trait impls of    *)
(* `dyn Key` applied to views of any mix of shapes.                        *)
(*                                                                         *)
(* Text is modelled as its sequence of UTF-8 bytes (Rust compares, and     *)
(* hashes, str by bytes), a byte sequence as a sequence of numbers.        *)
(* Orderings are "Less", "Equal", "Greater"; Option<T> is a sequence of    *)
(* length at most one (<<>> is None, <<x>> is Some(x)).  A hasher's state  *)
(* is the sequence of bytes written to it so far.                          *)
(***************************************************************************)
EXTENDS Integers, Sequences, FiniteSets, TLC

VARIABLES
    pc,            \* position of the running program
    hash_set,      \* complex2: the table of HashSet<OwnedKey>, entries (hash, key)
    inserted,      \* complex2: every OwnedKey handed to insert so far (history)
    borrowed_key,  \* complex2: the BorrowedKey of the last contains call
    found,         \* complex2: what that contains call returned
    owned1,        \* consistent_borrow: first generated OwnedKey
    owned2,        \* consistent_borrow: second generated OwnedKey
    borrowed1,     \* consistent_borrow: &owned1 as &dyn Key
    borrowed2,     \* consistent_borrow: &owned2 as &dyn Key
    checks,        \* consistent_borrow: both sides of every assert_eq!
    self,          \* dyn Key impls: the left operand, a &dyn Key
    other,         \* dyn Key impls: the right operand, a &dyn Key
    out            \* dyn Key impls: the results of eq, partial_cmp, cmp, hash

vars == << pc, hash_set, inserted, borrowed_key, found,
           owned1, owned2, borrowed1, borrowed2, checks, self, other, out >>

---------------------------------------------------------------------------
(* Bounds of the model *)

\* longest text of a generated key (consistent_borrow, dyn Key impls)
MaxTextLen == 1
\* longest byte sequence of a generated key (consistent_borrow, dyn Key impls)
MaxBytesLen == 2
\* longest text of a key of the hash set program
SetTextLen == 1
\* longest byte sequence of a key of the hash set program
SetBytesLen == 2
\* largest number of entries the hash set is grown to
MaxInserts == 2
\* bits of a hash value kept by the model (u64 in the program)
HashWidth == 2

\* the characters texts are made of ("a", "b"), and the byte values
TextAlphabet == {97, 98}
ByteAlphabet == {0, 1}
\* the same for the keys of the hash set program ("f"; "a", "b")
SetTextAlphabet == {102}
SetByteAlphabet == {97, 98}

SeqsUpTo(S, n) == UNION {[1..k -> S] : k \in 0..n}

---------------------------------------------------------------------------
(* The two key shapes *)

\* struct OwnedKey { s: String, bytes: Vec<u8> }
OwnedKey(texts, byteseqs) == [s : texts, bytes : byteseqs]

\* struct BorrowedKey<'a> { s: &'a str, bytes: &'a [u8] }
BorrowedKey(texts, byteseqs) == [s : texts, bytes : byteseqs]

\* any::<OwnedKey>(): the derived Arbitrary
ArbitraryOwnedKey ==
    OwnedKey(SeqsUpTo(TextAlphabet, MaxTextLen), SeqsUpTo(ByteAlphabet, MaxBytesLen))

ArbitraryBorrowedKey ==
    BorrowedKey(SeqsUpTo(TextAlphabet, MaxTextLen), SeqsUpTo(ByteAlphabet, MaxBytesLen))

SetOwnedKeys ==
    OwnedKey(SeqsUpTo(SetTextAlphabet, SetTextLen), SeqsUpTo(SetByteAlphabet, SetBytesLen))

SetBorrowedKeys ==
    BorrowedKey(SeqsUpTo(SetTextAlphabet, SetTextLen), SeqsUpTo(SetByteAlphabet, SetBytesLen))

\* String::as_str / Vec::as_slice: the content of the owned buffer, borrowed
as_str(string) == [i \in 1..Len(string) |-> string[i]]
as_slice(vec) == [i \in 1..Len(vec) |-> vec[i]]

---------------------------------------------------------------------------
(* Comparison and hashing of the fields (str and [u8]) *)

Ordering == {"Less", "Equal", "Greater"}

\* Ord for u8 / usize
int_cmp(x, y) == IF x < y THEN "Less" ELSE IF x > y THEN "Greater" ELSE "Equal"

\* Ord for [u8] (and for str, which compares as bytes): the first i in the
\* common length whose elements differ decides; otherwise the lengths do.
RECURSIVE slice_cmp_from(_, _, _)
slice_cmp_from(l, r, i) ==
    IF i > Len(l) \/ i > Len(r) THEN int_cmp(Len(l), Len(r))
    ELSE IF l[i] # r[i] THEN int_cmp(l[i], r[i])
    ELSE slice_cmp_from(l, r, i + 1)

slice_cmp(l, r) == slice_cmp_from(l, r, 1)

\* PartialOrd for str and [u8]: Some(cmp)
slice_partial_cmp(l, r) == << slice_cmp(l, r) >>

\* PartialEq for str and [u8]: same length and same elements
slice_eq(l, r) == Len(l) = Len(r) /\ \A i \in 1..Len(l) : l[i] = r[i]

\* Hash for str: write(bytes); write_u8(0xff)
str_hash(string, state) == state \o string \o << 255 >>

\* Hash for [u8]: write_length_prefix(len) (a usize, eight bytes); write(bytes)
slice_hash(bytes, state) ==
    state \o << Len(bytes) % 256, 0, 0, 0, 0, 0, 0, 0 >> \o bytes

\* Hasher::finish of the one hash algorithm in use: a function of the bytes
\* written, kept to HashWidth bits
RECURSIVE finish_from(_, _, _)
finish_from(state, i, h) ==
    IF i > Len(state) THEN h
    ELSE finish_from(state, i + 1, (h * 31 + state[i] + 1) % (2 ^ HashWidth))

finish(state) == finish_from(state, 1, 0)

---------------------------------------------------------------------------
(* #[derive(Eq, Hash, Ord, PartialEq, PartialOrd)] on OwnedKey: field by    *)
(* field in declaration order, s then bytes                                *)

OwnedKey_eq(o1, o2) == slice_eq(o1.s, o2.s) /\ slice_eq(o1.bytes, o2.bytes)

OwnedKey_cmp(o1, o2) ==
    LET c == slice_cmp(o1.s, o2.s)
    IN  IF c = "Equal" THEN slice_cmp(o1.bytes, o2.bytes) ELSE c

OwnedKey_partial_cmp(o1, o2) ==
    LET c == slice_partial_cmp(o1.s, o2.s)
    IN  IF c = << "Equal" >> THEN slice_partial_cmp(o1.bytes, o2.bytes) ELSE c

OwnedKey_hash(o, state) == slice_hash(o.bytes, str_hash(o.s, state))

---------------------------------------------------------------------------
(* #[derive(Copy, Clone, Eq, Hash, Ord, PartialEq, PartialOrd)] on          *)
(* BorrowedKey: field by field in declaration order, s then bytes          *)

BorrowedKey_eq_text_only(k1, k2) == slice_eq(k1.s, k2.s)

BorrowedKey_eq(k1, k2) == slice_eq(k1.s, k2.s) /\ slice_eq(k1.bytes, k2.bytes)

BorrowedKey_cmp_bytes_first(k1, k2) ==
    LET c == slice_cmp(k1.bytes, k2.bytes)
    IN  IF c = "Equal" THEN slice_cmp(k1.s, k2.s) ELSE c

BorrowedKey_cmp(k1, k2) ==
    LET c == slice_cmp(k1.s, k2.s)
    IN  IF c = "Equal" THEN slice_cmp(k1.bytes, k2.bytes) ELSE c

BorrowedKey_partial_cmp(k1, k2) ==
    LET c == slice_partial_cmp(k1.s, k2.s)
    IN  IF c = << "Equal" >> THEN slice_partial_cmp(k1.bytes, k2.bytes) ELSE c

BorrowedKey_hash_bytes_first(k, state) == str_hash(k.s, slice_hash(k.bytes, state))

BorrowedKey_hash(k, state) == slice_hash(k.bytes, str_hash(k.s, state))

---------------------------------------------------------------------------
(* trait Key and its two impls; a &dyn Key is a vtable and the data it      *)
(* points to                                                               *)

OwnedKey_key_swapped(o) == [s |-> as_slice(o.bytes), bytes |-> as_str(o.s)]

\* impl Key for OwnedKey
OwnedKey_key(o) == [s |-> as_str(o.s), bytes |-> as_slice(o.bytes)]

BorrowedKey_key_no_bytes(k) == [s |-> k.s, bytes |-> << >>]

\* impl Key for BorrowedKey: *self
BorrowedKey_key(k) == k

\* &OwnedKey coerced to &dyn Key
dyn_OwnedKey(o) == [vtable |-> "OwnedKey", data |-> o]

\* &BorrowedKey coerced to &dyn Key
dyn_BorrowedKey(k) == [vtable |-> "BorrowedKey", data |-> k]

\* x.key() on a &dyn Key: dispatch through the vtable
dyn_Key_key(x) ==
    IF x.vtable = "OwnedKey" THEN OwnedKey_key(x.data) ELSE BorrowedKey_key(x.data)

\* impl Borrow<dyn Key> for OwnedKey
OwnedKey_borrow(o) == dyn_OwnedKey(o)

\* every &dyn Key over the generated keys, of both shapes
ArbitraryDynKey ==
    {dyn_OwnedKey(o) : o \in ArbitraryOwnedKey}
        \cup {dyn_BorrowedKey(k) : k \in ArbitraryBorrowedKey}

---------------------------------------------------------------------------
(* impl PartialEq / Eq / PartialOrd / Ord / Hash for dyn Key               *)

dyn_Key_eq(x, y) == BorrowedKey_eq(dyn_Key_key(x), dyn_Key_key(y))

dyn_Key_partial_cmp_text_only(x, y) ==
    slice_partial_cmp(dyn_Key_key(x).s, dyn_Key_key(y).s)

dyn_Key_partial_cmp(x, y) == BorrowedKey_partial_cmp(dyn_Key_key(x), dyn_Key_key(y))

dyn_Key_cmp(x, y) == BorrowedKey_cmp(dyn_Key_key(x), dyn_Key_key(y))

dyn_Key_hash(x, state) == BorrowedKey_hash(dyn_Key_key(x), state)

---------------------------------------------------------------------------
(* Values of the variables a program does not use *)

NoKey == [s |-> << >>, bytes |-> << >>]
NoDyn == [vtable |-> "none", data |-> NoKey]
NoResult == [unused |-> TRUE]

\* DefaultHasher::new(): nothing written yet
DefaultHasher_new == << >>

---------------------------------------------------------------------------
(* complex2: HashSet<OwnedKey>, insert, and contains with a &dyn Key       *)

\* HashSet::insert: hash the key with its own Hash; keep the table as it is
\* when an entry with that hash equals the key, else add the entry
HashSet_insert(table, o) ==
    LET h == finish(OwnedKey_hash(o, DefaultHasher_new))
    IN  IF \E e \in table : e.hash = h /\ OwnedKey_eq(e.key, o)
        THEN table
        ELSE table \cup {[hash |-> h, key |-> o]}

\* HashSet::contains::<dyn Key>: hash the probe with Hash for dyn Key; among
\* the entries with that hash look for one whose borrow() equals the probe
HashSet_contains(table, q) ==
    LET h == finish(dyn_Key_hash(q, DefaultHasher_new))
    IN  \E e \in table : e.hash = h /\ dyn_Key_eq(q, OwnedKey_borrow(e.key))

InitSet ==
    /\ pc = "set_run"
    /\ hash_set = {}
    /\ inserted = {}
    /\ borrowed_key = NoKey
    /\ found = FALSE
    /\ owned1 = NoKey /\ owned2 = NoKey
    /\ borrowed1 = NoDyn /\ borrowed2 = NoDyn
    /\ checks = NoResult
    /\ self = NoDyn /\ other = NoDyn
    /\ out = NoResult

\* hash_set.insert(OwnedKey { .. })
insert(o) ==
    /\ pc = "set_run"
    /\ Cardinality(hash_set) < MaxInserts
    /\ hash_set' = HashSet_insert(hash_set, o)
    /\ inserted' = inserted \cup {o}
    /\ UNCHANGED << pc, borrowed_key, found, owned1, owned2, borrowed1,
                    borrowed2, checks, self, other, out >>

\* hash_set.contains(&borrowed_key): &BorrowedKey coerced to &dyn Key
contains(k) ==
    /\ pc = "set_run"
    /\ borrowed_key' = k
    /\ found' = HashSet_contains(hash_set, dyn_BorrowedKey(k))
    /\ pc' = "set_queried"
    /\ UNCHANGED << hash_set, inserted, owned1, owned2, borrowed1,
                    borrowed2, checks, self, other, out >>

NextSet ==
    \/ \E o \in SetOwnedKeys : insert(o)
    \/ \E k \in SetBorrowedKeys : contains(k)

SpecSet == InitSet /\ [][NextSet]_vars

---------------------------------------------------------------------------
(* consistent_borrow: the property test over two generated OwnedKeys       *)

\* fn hash_output(x: impl Hash) -> u64, at &OwnedKey and at &&dyn Key
hash_output_OwnedKey(o) == finish(OwnedKey_hash(o, DefaultHasher_new))
hash_output_dyn_Key(x) == finish(dyn_Key_hash(x, DefaultHasher_new))

InitProp ==
    /\ pc = "cb_generated"
    /\ owned1 \in ArbitraryOwnedKey
    /\ owned2 \in ArbitraryOwnedKey
    /\ borrowed1 = NoDyn /\ borrowed2 = NoDyn
    /\ checks = NoResult
    /\ hash_set = {} /\ inserted = {}
    /\ borrowed_key = NoKey /\ found = FALSE
    /\ self = NoDyn /\ other = NoDyn
    /\ out = NoResult

\* the body of the test: both sides of each of the five assert_eq!
consistent_borrow ==
    /\ pc = "cb_generated"
    /\ borrowed1' = dyn_OwnedKey(owned1)
    /\ borrowed2' = dyn_OwnedKey(owned2)
    /\ checks' =
         [ eq_owned |-> OwnedKey_eq(owned1, owned2),
           eq_borrowed |-> dyn_Key_eq(borrowed1', borrowed2'),
           partial_cmp_owned |-> OwnedKey_partial_cmp(owned1, owned2),
           partial_cmp_borrowed |-> dyn_Key_partial_cmp(borrowed1', borrowed2'),
           cmp_owned |-> OwnedKey_cmp(owned1, owned2),
           cmp_borrowed |-> dyn_Key_cmp(borrowed1', borrowed2'),
           written_owned1 |-> OwnedKey_hash(owned1, DefaultHasher_new),
           written_borrowed1 |-> dyn_Key_hash(borrowed1', DefaultHasher_new),
           hash_owned1 |-> hash_output_OwnedKey(owned1),
           hash_borrowed1 |-> hash_output_dyn_Key(borrowed1'),
           hash_owned2 |-> hash_output_OwnedKey(owned2),
           hash_borrowed2 |-> hash_output_dyn_Key(borrowed2') ]
    /\ pc' = "cb_done"
    /\ UNCHANGED << hash_set, inserted, borrowed_key, found, owned1, owned2,
                    self, other, out >>

NextProp == consistent_borrow

SpecProp == InitProp /\ [][NextProp]_vars

---------------------------------------------------------------------------
(* The impls of dyn Key applied to two views of any mix of shapes: key(),   *)
(* then eq, partial_cmp, cmp and hash, as a container calls them           *)

InitDyn ==
    /\ pc = "dyn_key"
    /\ self \in ArbitraryDynKey
    /\ other \in ArbitraryDynKey
    /\ out = NoResult
    /\ hash_set = {} /\ inserted = {}
    /\ borrowed_key = NoKey /\ found = FALSE
    /\ owned1 = NoKey /\ owned2 = NoKey
    /\ borrowed1 = NoDyn /\ borrowed2 = NoDyn
    /\ checks = NoResult

UnchangedByDyn ==
    UNCHANGED << hash_set, inserted, borrowed_key, found, owned1, owned2,
                 borrowed1, borrowed2, checks, self, other >>

\* self.key(), other.key()
key ==
    /\ pc = "dyn_key"
    /\ out' = [self_key |-> dyn_Key_key(self), other_key |-> dyn_Key_key(other)]
    /\ pc' = "dyn_eq"
    /\ UnchangedByDyn

\* self == other, other == self
eq ==
    /\ pc = "dyn_eq"
    /\ out' = [self_key |-> out.self_key, other_key |-> out.other_key,
               eq |-> dyn_Key_eq(self, other), eq_rev |-> dyn_Key_eq(other, self)]
    /\ pc' = "dyn_cmp"
    /\ UnchangedByDyn

\* self.partial_cmp(other), self.cmp(other)
cmp ==
    /\ pc = "dyn_cmp"
    /\ out' = [self_key |-> out.self_key, other_key |-> out.other_key,
               eq |-> out.eq, eq_rev |-> out.eq_rev,
               partial_cmp |-> dyn_Key_partial_cmp(self, other),
               cmp |-> dyn_Key_cmp(self, other)]
    /\ pc' = "dyn_hash"
    /\ UnchangedByDyn

\* self.hash(&mut hasher), other.hash(&mut hasher), each with a fresh hasher
hash ==
    /\ pc = "dyn_hash"
    /\ out' = [self_key |-> out.self_key, other_key |-> out.other_key,
               eq |-> out.eq, eq_rev |-> out.eq_rev,
               partial_cmp |-> out.partial_cmp, cmp |-> out.cmp,
               hash_self |-> hash_output_dyn_Key(self),
               hash_other |-> hash_output_dyn_Key(other)]
    /\ pc' = "dyn_done"
    /\ UnchangedByDyn

NextDyn == key \/ eq \/ cmp \/ hash

SpecDyn == InitDyn /\ [][NextDyn]_vars

\* the three programs; each runs from its own initial states
Init == InitSet \/ InitProp \/ InitDyn
Next == NextSet \/ NextProp \/ NextDyn
Spec == Init /\ [][Next]_vars

---------------------------------------------------------------------------
(* Properties *)

\* the fields of the value behind a &dyn Key, read directly
fields(x) == x.data

SameFields(p, q) == p.s = q.s /\ p.bytes = q.bytes

\* l is a strict prefix of r
StrictPrefix(l, r) == Len(l) < Len(r) /\ \A i \in 1..Len(l) : l[i] = r[i]

\* l is before r in lexicographic order: at the first position where they
\* differ l has ended or has the smaller element
SeqLess(l, r) ==
    \E i \in 1..Len(r) :
        /\ i - 1 <= Len(l)
        /\ \A j \in 1..(i - 1) : l[j] = r[j]
        /\ (i > Len(l) \/ l[i] < r[i])

\* text first, the byte sequence only when the texts are equal
KeyLess(p, q) == SeqLess(p.s, q.s) \/ (p.s = q.s /\ SeqLess(p.bytes, q.bytes))

LexOrdering(p, q) ==
    IF KeyLess(p, q) THEN "Less" ELSE IF KeyLess(q, p) THEN "Greater" ELSE "Equal"

\* C1 (Eq consistency): once consistent_borrow has run on two generated
\* OwnedKeys, the derived equality owned1 == owned2 is the same boolean as
\* the equality of their views, borrowed1 == borrowed2.
C1_EqConsistent ==
    pc = "cb_done" => checks.eq_owned = checks.eq_borrowed

\* two keys with the same non-empty text and different bytes: both sides false
C1_Witness ==
    /\ pc = "cb_done"
    /\ owned1.s = owned2.s /\ owned1.s # << >>
    /\ owned1.bytes # owned2.bytes
    /\ checks.eq_owned = FALSE /\ checks.eq_borrowed = FALSE

\* C2 (Ord consistency): once consistent_borrow has run, cmp and partial_cmp
\* of the two OwnedKeys give what cmp and partial_cmp of their views give.
C2_OrdConsistent ==
    pc = "cb_done" =>
        /\ checks.cmp_owned = checks.cmp_borrowed
        /\ checks.partial_cmp_owned = checks.partial_cmp_borrowed

\* the text says Less and the bytes alone would say Greater
C2_Witness ==
    /\ pc = "cb_done"
    /\ slice_cmp(owned1.s, owned2.s) = "Less"
    /\ slice_cmp(owned1.bytes, owned2.bytes) = "Greater"
    /\ checks.cmp_owned = "Less" /\ checks.cmp_borrowed = "Less"
    /\ checks.partial_cmp_borrowed = << "Less" >>

\* C3 (Hash consistency): once consistent_borrow has run, each OwnedKey and
\* its view have the same hash_output, and the hasher was fed the same bytes
\* in the same order (text, then bytes) by both.
C3_HashConsistent ==
    pc = "cb_done" =>
        /\ checks.hash_owned1 = checks.hash_borrowed1
        /\ checks.hash_owned2 = checks.hash_borrowed2
        /\ checks.written_owned1 = checks.written_borrowed1
        /\ checks.written_owned1 =
             slice_hash(owned1.bytes, str_hash(owned1.s, DefaultHasher_new))

\* a key with text and bytes, the two of different lengths
C3_Witness ==
    /\ pc = "cb_done"
    /\ Len(owned1.s) = 1 /\ Len(owned1.bytes) = 2
    /\ checks.hash_owned1 = checks.hash_borrowed1
    /\ Len(checks.written_borrowed1) = 12

\* C4 (substitution law): after any inserts, contains with a BorrowedKey
\* whose text and bytes equal those of some inserted OwnedKey returns true.
C4_Substitution ==
    (pc = "set_queried" /\ \E o \in inserted : SameFields(o, borrowed_key))
        => found = TRUE

\* two keys inserted, the probe has the fields of one of them
C4_Witness ==
    /\ pc = "set_queried"
    /\ Cardinality(inserted) = 2
    /\ borrowed_key.s # << >> /\ Len(borrowed_key.bytes) = 2
    /\ \E o \in inserted : SameFields(o, borrowed_key)
    /\ found = TRUE

\* C5 (negative lookup): after any inserts, contains with a BorrowedKey
\* whose (text, bytes) differs from that of every inserted OwnedKey returns
\* false, also when one field alone differs or the probe's bytes are a
\* strict prefix of an inserted key's bytes.
C5_Negative ==
    (pc = "set_queried" /\ \A o \in inserted : ~SameFields(o, borrowed_key))
        => found = FALSE

\* the probe has the text of an inserted key and a strict prefix of its
\* bytes, and its hash is the hash of an entry of the table
C5_Witness ==
    /\ pc = "set_queried"
    /\ \A o \in inserted : ~SameFields(o, borrowed_key)
    /\ \E o \in inserted :
           o.s = borrowed_key.s /\ StrictPrefix(borrowed_key.bytes, o.bytes)
    /\ borrowed_key.bytes # << >>
    /\ \E e \in hash_set : e.hash = hash_output_dyn_Key(dyn_BorrowedKey(borrowed_key))
    /\ found = FALSE

\* C6 (projection): key() on a view of an OwnedKey returns a BorrowedKey with
\* the text of the OwnedKey as s and its bytes as bytes, and leaves the
\* OwnedKey as it was.
C6_Projection ==
    [][ (pc = "dyn_key" /\ pc' = "dyn_eq" /\ self.vtable = "OwnedKey") =>
           /\ out'.self_key.s = self.data.s
           /\ out'.self_key.bytes = self.data.bytes
           /\ self' = self ]_vars

\* an OwnedKey whose text and bytes differ in content and length
C6_Witness ==
    /\ pc = "dyn_eq"
    /\ self.vtable = "OwnedKey"
    /\ Len(self.data.s) = 1 /\ Len(self.data.bytes) = 2
    /\ out.self_key = [s |-> self.data.s, bytes |-> self.data.bytes]

\* C7 (order definition): cmp on two views is the lexicographic order of
\* their fields, text first and bytes only when the texts are equal, a
\* strict prefix before the longer sequence; so ("a", []) is before
\* ("b", []), ("a", [1]) is before ("a", [1, 0]), and the smaller text is
\* first whatever the bytes.
C7_OrderDefinition ==
    pc \in {"dyn_hash", "dyn_done"} =>
        /\ out.cmp = LexOrdering(fields(self), fields(other))
        /\ (fields(self) = [s |-> << 97 >>, bytes |-> << >>]
              /\ fields(other) = [s |-> << 98 >>, bytes |-> << >>])
             => out.cmp = "Less"
        /\ (fields(self) = [s |-> << 97 >>, bytes |-> << 1 >>]
              /\ fields(other) = [s |-> << 97 >>, bytes |-> << 1, 0 >>])
             => out.cmp = "Less"
        /\ SeqLess(fields(self).s, fields(other).s) => out.cmp = "Less"

\* ("a", [1]) owned against ("a", [1, 0]) borrowed
C7_Witness ==
    /\ pc = "dyn_done"
    /\ self = dyn_OwnedKey([s |-> << 97 >>, bytes |-> << 1 >>])
    /\ other = dyn_BorrowedKey([s |-> << 97 >>, bytes |-> << 1, 0 >>])
    /\ out.cmp = "Less"

\* C8 (cross-shape equality): for two views of any mix of shapes, a == b
\* exactly when their projections, and their fields, have equal text and
\* equal bytes, and b == a gives the same.
C8_CrossShapeEq ==
    pc \in {"dyn_cmp", "dyn_hash", "dyn_done"} =>
        /\ out.eq = SameFields(out.self_key, out.other_key)
        /\ out.eq = SameFields(fields(self), fields(other))
        /\ out.eq_rev = out.eq

\* an OwnedKey and a BorrowedKey with the same non-empty fields are equal
C8_Witness ==
    /\ pc = "dyn_cmp"
    /\ self.vtable = "OwnedKey" /\ other.vtable = "BorrowedKey"
    /\ fields(self).s # << >> /\ fields(self).bytes # << >>
    /\ SameFields(fields(self), fields(other))
    /\ out.eq = TRUE /\ out.eq_rev = TRUE

\* C9 (equal views hash equal): two views of any mix of shapes that are
\* equal have the same hash; a BorrowedKey with the fields of an OwnedKey
\* has the hash the OwnedKey's derived Hash gives.
C9_EqImpliesHashEq ==
    pc = "dyn_done" =>
        /\ out.eq => out.hash_self = out.hash_other
        /\ (self.vtable = "OwnedKey" /\ other.vtable = "BorrowedKey"
              /\ SameFields(fields(self), fields(other)))
             => out.hash_other = hash_output_OwnedKey(self.data)

\* a BorrowedKey equal to an OwnedKey, with the same hash
C9_Witness ==
    /\ pc = "dyn_done"
    /\ self.vtable = "OwnedKey" /\ other.vtable = "BorrowedKey"
    /\ Len(fields(self).s) = 1 /\ Len(fields(self).bytes) = 2
    /\ out.eq = TRUE
    /\ out.hash_self = out.hash_other
    /\ out.hash_other = hash_output_OwnedKey(self.data)

\* C10 (order agrees with equality): for two views of any mix of shapes,
\* cmp is Equal exactly when they are equal, and partial_cmp is Some(cmp).
C10_OrdAgreesWithEq ==
    pc \in {"dyn_hash", "dyn_done"} =>
        /\ (out.cmp = "Equal") = out.eq
        /\ out.partial_cmp = << out.cmp >>

\* views of different shapes that differ only in the bytes: not Equal
C10_Witness ==
    /\ pc = "dyn_hash"
    /\ self.vtable # other.vtable
    /\ fields(self).s = fields(other).s
    /\ out.eq = FALSE
    /\ out.cmp = "Greater" /\ out.partial_cmp = << "Greater" >>

====
